---- MODULE Spec2Model ----
(***************************************************************************)
(* A model of bibtexcleaner's entry-cleaning pipeline (src/cleaner.py).    *)
(*                                                                         *)
(* Text is a sequence of characters.  A character is a one-element token:  *)
(* the ASCII characters stand for themselves, and "kanji", "hira", "kata"  *)
(* and "ctl" stand for one CJK unified ideograph, one hiragana letter, one *)
(* katakana letter and one control character (U+0001, which has no Unicode *)
(* name and is not whitespace).                                            *)
(* An entry is a function from the names of the fields it has to their     *)
(* values (a Python dict): field absence is absence from DOMAIN.           *)
(***************************************************************************)
EXTENDS Integers, Sequences, FiniteSets, TLC

VARIABLES option, entries, cleaned_entries, counter, key_idx, pc, outcome, ret

vars == <<option, entries, cleaned_entries, counter, key_idx, pc, outcome, ret>>

(***************************************************************************)
(* Bounds of the model.                                                    *)
(***************************************************************************)
MaxTitleLen == 4
MaxNameLen == 4
MaxRest == 1
MaxBatch == 4

(***************************************************************************)
(* Python's str and list primitives used by the code.                      *)
(***************************************************************************)
RECURSIVE Concat(_)
Concat(ss) == IF ss = <<>> THEN <<>> ELSE Head(ss) \o Concat(Tail(ss))

Contains(s, c) == \E i \in 1..Len(s) : s[i] = c

\* str.strip(): leading and trailing whitespace removed
IsSpace(c) == c = " "

RECURSIVE LStrip(_)
LStrip(s) == IF s # <<>> /\ IsSpace(Head(s)) THEN LStrip(Tail(s)) ELSE s

RECURSIVE RStrip(_)
RStrip(s) ==
    IF s # <<>> /\ IsSpace(s[Len(s)]) THEN RStrip(SubSeq(s, 1, Len(s) - 1)) ELSE s

Strip(s) == RStrip(LStrip(s))

\* the position of the first c in s (0 when there is none)
RECURSIVE FindFrom(_, _, _)
FindFrom(s, c, i) ==
    IF i > Len(s) THEN 0 ELSE IF s[i] = c THEN i ELSE FindFrom(s, c, i + 1)

\* str.split(sep, 1) for a one-character sep that occurs in s
SplitFirst(s, c) ==
    LET i == FindFrom(s, c, 1)
    IN  <<SubSeq(s, 1, i - 1), SubSeq(s, i + 1, Len(s))>>

\* str.replace(c, "") for each c of a set
RECURSIVE RemoveChars(_, _)
RemoveChars(s, cs) ==
    IF s = <<>> THEN <<>>
    ELSE IF Head(s) \in cs THEN RemoveChars(Tail(s), cs)
    ELSE <<Head(s)>> \o RemoveChars(Tail(s), cs)

\* sep.join(list)
RECURSIVE Join(_, _)
Join(sep, ss) ==
    IF ss = <<>> THEN <<>>
    ELSE IF Len(ss) = 1 THEN Head(ss)
    ELSE Head(ss) \o sep \o Join(sep, Tail(ss))

AndSep == <<" ", "a", "n", "d", " ">>

\* all sequences over S of length at most n
RECURSIVE SeqUpTo(_, _)
SeqUpTo(S, n) ==
    IF n = 0 THEN {<<>>}
    ELSE LET shorter == SeqUpTo(S, n - 1)
         IN  shorter \cup {Append(s, c) : s \in {t \in shorter : Len(t) = n - 1}, c \in S}

(***************************************************************************)
(* unicodedata.name(c): the Unicode name of a character, "" standing for   *)
(* the ValueError of a character that has none.                            *)
(***************************************************************************)
UnicodeName(c) ==
    CASE c = "kanji" -> "CJK UNIFIED IDEOGRAPH"
      [] c = "hira"  -> "HIRAGANA LETTER"
      [] c = "kata"  -> "KATAKANA LETTER"
      [] c = "ctl"   -> ""
      [] OTHER       -> "LATIN OR PUNCTUATION"

HasUnicodeName(c) == UnicodeName(c) # ""

\* "CJK UNIFIED" in name or "HIRAGANA" in name or "KATAKANA" in name
IsJapaneseName(name) ==
    name \in {"CJK UNIFIED IDEOGRAPH", "HIRAGANA LETTER", "KATAKANA LETTER"}

(***************************************************************************)
(* _is_japanese: the scan returns at the first character that has no name  *)
(* (False) or that is Japanese (True).                                     *)
(***************************************************************************)
RECURSIVE is_japanese(_)
is_japanese(string) ==
    IF string = <<>> THEN FALSE
    ELSE IF ~HasUnicodeName(Head(string)) THEN FALSE
    ELSE IF IsJapaneseName(UnicodeName(Head(string))) THEN TRUE
    ELSE is_japanese(Tail(string))

(***************************************************************************)
(* check_parentheses_matching(string, "{", "}")                            *)
(***************************************************************************)
RECURSIVE MatchFrom(_, _)
MatchFrom(string, depth) ==
    IF string = <<>> THEN depth = 0
    ELSE IF Head(string) = "{" THEN MatchFrom(Tail(string), depth + 1)
    ELSE IF Head(string) = "}"
         THEN IF depth = 0 THEN FALSE ELSE MatchFrom(Tail(string), depth - 1)
    ELSE MatchFrom(Tail(string), depth)

check_parentheses_matching(string) == MatchFrom(string, 0)

(***************************************************************************)
(* An exception leaving a function is the value Raise(kind).               *)
(***************************************************************************)
Raise(kind) == [raised |-> kind]

Raised(x) == "raised" \in DOMAIN x

(***************************************************************************)
(* _wrap_title: the entry, or IndexError for title[0] of an empty title.   *)
(***************************************************************************)
wrap_title_always(entry) ==
    IF "title" \in DOMAIN entry
    THEN IF entry["title"] = <<>> THEN Raise("IndexError")
         ELSE [entry EXCEPT !["title"] = <<"{">> \o @ \o <<"}">>]
    ELSE entry

wrap_title(entry) ==
    IF "title" \in DOMAIN entry
    THEN LET title == entry["title"]
         IN  IF title = <<>> THEN Raise("IndexError")
             ELSE IF /\ title[1] = "{"
                     /\ title[Len(title)] = "}"
                     /\ check_parentheses_matching(SubSeq(title, 2, Len(title) - 1))
             THEN entry
             ELSE [entry EXCEPT !["title"] = <<"{">> \o title \o <<"}">>]
    ELSE entry

(***************************************************************************)
(* _treat_japanese_author                                                  *)
(***************************************************************************)
treat_name_swapped(fullname, reverse_author) ==
    IF is_japanese(fullname) /\ Contains(fullname, ",")
    THEN LET parts == SplitFirst(fullname, ",")
             last  == Strip(parts[1])
             first == Strip(parts[2])
         IN  IF reverse_author THEN last \o <<" ">> \o first
             ELSE first \o <<" ">> \o last
    ELSE fullname

treat_name(fullname, reverse_author) ==
    IF is_japanese(fullname) /\ Contains(fullname, ",")
    THEN LET parts == SplitFirst(fullname, ",")
             last  == Strip(parts[1])
             first == Strip(parts[2])
         IN  IF reverse_author THEN first \o <<" ">> \o last
             ELSE last \o <<" ">> \o first
    ELSE fullname

treat_japanese_author(entry, reverse_author) ==
    IF "author" \in DOMAIN entry
    THEN [entry EXCEPT !["author"] =
              [i \in 1..Len(@) |-> treat_name(@[i], reverse_author)]]
    ELSE entry

(***************************************************************************)
(* bibtex_schema.required: entry type -> the fields kept for that type.    *)
(***************************************************************************)
required_fields ==
    [t \in {"article", "book"} |->
        IF t = "article" THEN {"author", "title", "journal", "year"}
        ELSE {"author", "title", "publisher", "year"}]

(***************************************************************************)
(* bibtexparser.customization.splitname, for the names the model draws:    *)
(* words separated by whitespace, at most one comma, no braces, and one    *)
(* word before the comma.  "First Last": a single word is the last name,   *)
(* of two words the first is the first name.  "Last, First": the word      *)
(* before the comma is the last name, the words after it the first names.  *)
(***************************************************************************)
RECURSIVE WordsFrom(_, _)
WordsFrom(s, word) ==
    IF s = <<>> THEN (IF word = <<>> THEN <<>> ELSE <<word>>)
    ELSE IF IsSpace(Head(s))
         THEN (IF word = <<>> THEN <<>> ELSE <<word>>) \o WordsFrom(Tail(s), <<>>)
    ELSE WordsFrom(Tail(s), Append(word, Head(s)))

Words(s) == WordsFrom(s, <<>>)

splitname(name) ==
    IF Contains(name, ",")
    THEN LET parts == SplitFirst(name, ",")
         IN  [first |-> Words(parts[2]), last |-> Words(parts[1])]
    ELSE LET p0 == Words(name)
         IN  IF Len(p0) = 1 THEN [first |-> <<>>, last |-> p0]
             ELSE [first |-> SubSeq(p0, 1, 1), last |-> SubSeq(p0, 2, Len(p0))]

(***************************************************************************)
(* _make_id                                                                *)
(***************************************************************************)
make_id(entry) ==
    IF \/ "author" \notin DOMAIN entry
       \/ "year" \notin DOMAIN entry
       \/ entry["author"] = <<>>
    THEN entry["ID"]
    ELSE LET first_author == entry["author"][1]
             name_dict == splitname(first_author)
             name == IF name_dict["first"] = <<>> \/ name_dict["last"] = <<>>
                     THEN IF name_dict["last"] # <<>>
                          THEN Concat(name_dict["last"])
                          ELSE Concat(name_dict["first"])
                     ELSE IF is_japanese(first_author)
                          THEN Concat(name_dict["first"])
                          ELSE Concat(name_dict["last"])
         IN  IF name_dict["first"] = <<>> /\ name_dict["last"] = <<>>
             THEN entry["ID"]
             ELSE RemoveChars(name, {" ", ".", "{", "}"}) \o entry["year"]

(***************************************************************************)
(* clean_entry: the cleaned entry, or the exception that leaves it.        *)
(***************************************************************************)
keep_fields_all(entry, needs) == entry

\* lines 217-222: ID, ENTRYTYPE and the entry's fields that are needed
keep_fields(entry, needs) ==
    [item \in {"ID", "ENTRYTYPE"} \cup (DOMAIN entry \cap needs) |-> entry[item]]

clean_entry(entry, opt) ==
    IF entry["ENTRYTYPE"] \notin DOMAIN required_fields
    THEN Raise("CleanerException")
    ELSE LET e0 == keep_fields(entry, required_fields[entry["ENTRYTYPE"]])
             e1 == IF opt["jauthor"]
                   THEN treat_japanese_author(e0, opt["revjauthor"])
                   ELSE e0
             e2 == IF opt["savetitlecase"] THEN wrap_title(e1) ELSE e1
         IN  IF Raised(e2) THEN e2
             ELSE LET e3 == IF opt["replaceid"]
                            THEN [e2 EXCEPT !["ID"] = make_id(e2)]
                            ELSE e2
                  IN  IF "author" \notin DOMAIN e3 THEN Raise("KeyError")
                      ELSE [e3 EXCEPT !["author"] = Join(AndSep, @)]

(***************************************************************************)
(* The option dict built by the front end (endpoint.py): four flags.       *)
(***************************************************************************)
SettingItems == {"savetitlecase", "replaceid", "jauthor", "revjauthor"}

Options == [SettingItems -> BOOLEAN]

NoFields == [f \in {} |-> <<>>]

Entry(type, id, fields) == ("ID" :> id) @@ ("ENTRYTYPE" :> type) @@ fields

IdK == <<"k">>

(***************************************************************************)
(* The title guard applied to a title, and to its own result.              *)
(***************************************************************************)
TitleAlphabet == {"{", "}", "t"}

Titles == SeqUpTo(TitleAlphabet, MaxTitleLen) \ {<<>>}

InitTitle ==
    /\ option \in {o \in Options : o["savetitlecase"] /\ ~o["replaceid"]
                                   /\ ~o["jauthor"] /\ ~o["revjauthor"]}
    /\ entries \in {<<Entry("article", IdK, NoFields)>>}
                   \cup {<<Entry("article", IdK, "title" :> t)>> : t \in Titles}
    /\ cleaned_entries = <<>>
    /\ counter = <<>>
    /\ key_idx = 0
    /\ pc = "start"
    /\ outcome = NoFields
    /\ ret = <<>>

WrapTitleOnce ==
    /\ pc = "start"
    /\ ret' = <<wrap_title(entries[1])>>
    /\ pc' = "once"
    /\ UNCHANGED <<option, entries, cleaned_entries, counter, key_idx, outcome>>

WrapTitleAgain ==
    /\ pc = "once"
    /\ ret' = Append(ret, wrap_title(ret[1]))
    /\ pc' = "twice"
    /\ UNCHANGED <<option, entries, cleaned_entries, counter, key_idx, outcome>>

NextTitle == WrapTitleOnce \/ WrapTitleAgain

SpecTitle == InitTitle /\ [][NextTitle]_vars

(***************************************************************************)
(* The script classifier and the author normalizer applied to an author    *)
(* list: one name drawn from every text over NameAlphabet, before or after *)
(* up to MaxRest names of NamePool.                                        *)
(***************************************************************************)
NameAlphabet == {"a", "kanji", ",", " ", "ctl"}

Names == SeqUpTo(NameAlphabet, MaxNameLen)

NamePool == {<<"hira", ",", "kata">>, <<"b", ",", "c">>}

AuthorLists ==
    {<<n>> \o r : n \in Names, r \in SeqUpTo(NamePool, MaxRest)}
    \cup {r \o <<n>> : n \in Names, r \in SeqUpTo(NamePool, MaxRest)}

InitAuthor ==
    /\ option \in {o \in Options : o["jauthor"] /\ ~o["savetitlecase"] /\ ~o["replaceid"]}
    /\ entries \in {<<Entry("article", IdK, "author" :> a)>> : a \in AuthorLists}
    /\ cleaned_entries = <<>>
    /\ counter = <<>>
    /\ key_idx = 0
    /\ pc = "start"
    /\ outcome = NoFields
    /\ ret = <<>>

IsJapaneseCall ==
    /\ pc = "start"
    /\ \E i \in 1..Len(entries[1]["author"]) :
           ret' = <<i, is_japanese(entries[1]["author"][i])>>
    /\ pc' = "is_japanese"
    /\ UNCHANGED <<option, entries, cleaned_entries, counter, key_idx, outcome>>

TreatJapaneseAuthorCall ==
    /\ pc = "start"
    /\ ret' = <<treat_japanese_author(entries[1], option["revjauthor"])>>
    /\ pc' = "treat"
    /\ UNCHANGED <<option, entries, cleaned_entries, counter, key_idx, outcome>>

NextAuthor == IsJapaneseCall \/ TreatJapaneseAuthorCall

SpecAuthor == InitAuthor /\ [][NextAuthor]_vars

(***************************************************************************)
(* clean_entry applied to one parsed entry.  The titles drawn are          *)
(* non-empty, the author names within the forms splitname is modelled for. *)
(***************************************************************************)
Year == <<"2", "0", "1", "9">>

JpFamilyGiven == <<"kanji", ",", " ", "hira">>

JpDotted == <<"kanji", ".", ",", "kata">>

JpSingle == <<"kata">>

LatinLastFirst == <<"S", ",", " ", "J", ".">>

LatinFirstLast == <<"J", " ", "S">>

EntryAuthors ==
    {<<>>, <<JpFamilyGiven>>, <<JpDotted>>, <<JpSingle>>, <<LatinLastFirst>>,
     <<LatinFirstLast>>, <<JpFamilyGiven, LatinLastFirst>>,
     <<LatinLastFirst, JpFamilyGiven>>}

EntryTitles == {<<"t">>, <<"{", "t", "}">>, <<"{", "t">>}

OtherFields == {"journal", "publisher", "abstract"}

EntryFields ==
    {a @@ t @@ y @@ [f \in x |-> <<"v">>] :
        a \in {NoFields} \cup {"author" :> v : v \in EntryAuthors},
        t \in {NoFields} \cup {"title" :> v : v \in EntryTitles},
        y \in {NoFields, "year" :> Year},
        x \in SUBSET OtherFields}

EntryTypes == {"article", "book", "weirdtype"}

InitEntry ==
    /\ option \in Options
    /\ entries \in {<<Entry(type, IdK, fields)>> : type \in EntryTypes, fields \in EntryFields}
    /\ cleaned_entries = <<>>
    /\ counter = <<>>
    /\ key_idx = 0
    /\ pc = "start"
    /\ outcome = NoFields
    /\ ret = <<>>

CleanEntryCall ==
    /\ pc = "start"
    /\ ret' = <<clean_entry(entries[1], option)>>
    /\ pc' = "called"
    /\ UNCHANGED <<option, entries, cleaned_entries, counter, key_idx, outcome>>

NextEntry == CleanEntryCall

SpecEntry == InitEntry /\ [][NextEntry]_vars

(***************************************************************************)
(* clean_entries over a batch: the loop over the entries, the Counter of   *)
(* the cleaned IDs, one step per key of the Counter, the return.           *)
(***************************************************************************)
IdS == <<"S">> \o Year

IdSa == IdS \o <<"a">>

BatchRecords ==
    { Entry("article", IdK, ("author" :> <<LatinLastFirst>>) @@ ("year" :> Year)),
      Entry("article", IdS, "author" :> <<LatinLastFirst>>),
      Entry("article", IdSa, "author" :> <<LatinLastFirst>>),
      Entry("article", IdK, ("title" :> <<"t">>) @@ ("year" :> Year)),
      Entry("weirdtype", IdK, "author" :> <<LatinLastFirst>>) }

\* collections.Counter over a list: the keys in the order of their first
\* occurrence, each with the number of its occurrences
RECURSIVE FirstOccurrences(_, _)
FirstOccurrences(ids, seen) ==
    IF ids = <<>> THEN <<>>
    ELSE IF Head(ids) \in seen THEN FirstOccurrences(Tail(ids), seen)
    ELSE <<Head(ids)>> \o FirstOccurrences(Tail(ids), seen \cup {Head(ids)})

Counter(ids) ==
    LET keys == FirstOccurrences(ids, {})
    IN  [k \in 1..Len(keys) |->
            <<keys[k], Cardinality({i \in 1..Len(ids) : ids[i] = keys[k]})>>]

\* chr(ord("a") + cnt)
Letters ==
    <<"a", "b", "c", "d", "e", "f", "g", "h", "i", "j", "k", "l", "m",
      "n", "o", "p", "q", "r", "s", "t", "u", "v", "w", "x", "y", "z">>

Chr(cnt) == Letters[cnt + 1]

\* lines 262-266: the entries whose ID is key get a letter each, in order
RECURSIVE AppendLetters(_, _, _, _)
AppendLetters(es, key, i, cnt) ==
    IF i > Len(es) THEN es
    ELSE IF es[i]["ID"] = key
         THEN AppendLetters([es EXCEPT ![i]["ID"] = @ \o <<Chr(cnt)>>], key, i + 1, cnt + 1)
    ELSE AppendLetters(es, key, i + 1, cnt)

Init ==
    /\ option \in Options
    /\ entries \in SeqUpTo(BatchRecords, MaxBatch)
    /\ cleaned_entries = <<>>
    /\ counter = <<>>
    /\ key_idx = 0
    /\ pc = "clean"
    /\ outcome = NoFields
    /\ ret = <<>>

NextEntryCleaned == clean_entry(entries[Len(cleaned_entries) + 1], option)

CleanEntry ==
    /\ pc = "clean"
    /\ Len(cleaned_entries) < Len(entries)
    /\ ~Raised(NextEntryCleaned)
    /\ cleaned_entries' = Append(cleaned_entries, NextEntryCleaned)
    /\ UNCHANGED <<option, entries, counter, key_idx, pc, outcome, ret>>

\* the exception leaves clean_entries, and the cleaned list with it
CleanEntryRaise ==
    /\ pc = "clean"
    /\ Len(cleaned_entries) < Len(entries)
    /\ Raised(NextEntryCleaned)
    /\ outcome' = NextEntryCleaned
    /\ cleaned_entries' = <<>>
    /\ pc' = "raised"
    /\ UNCHANGED <<option, entries, counter, key_idx, ret>>

CountIds ==
    /\ pc = "clean"
    /\ Len(cleaned_entries) = Len(entries)
    /\ counter' = Counter([i \in 1..Len(cleaned_entries) |-> cleaned_entries[i]["ID"]])
    /\ key_idx' = 1
    /\ pc' = "dedup"
    /\ UNCHANGED <<option, entries, cleaned_entries, outcome, ret>>

DedupKey ==
    /\ pc = "dedup"
    /\ key_idx <= Len(counter)
    /\ counter[key_idx][2] >= 2
    /\ cleaned_entries' = AppendLetters(cleaned_entries, counter[key_idx][1], 1, 0)
    /\ key_idx' = key_idx + 1
    /\ UNCHANGED <<option, entries, counter, pc, outcome, ret>>

SkipKey ==
    /\ pc = "dedup"
    /\ key_idx <= Len(counter)
    /\ counter[key_idx][2] < 2
    /\ key_idx' = key_idx + 1
    /\ UNCHANGED <<option, entries, cleaned_entries, counter, pc, outcome, ret>>

Return ==
    /\ pc = "dedup"
    /\ key_idx > Len(counter)
    /\ outcome' = [entries |-> cleaned_entries]
    /\ pc' = "done"
    /\ UNCHANGED <<option, entries, cleaned_entries, counter, key_idx, ret>>

Next == CleanEntry \/ CleanEntryRaise \/ CountIds \/ DedupKey \/ SkipKey \/ Return

Spec == Init /\ [][Next]_vars


(***************************************************************************)
(* Claims about the title guard (under SpecTitle).                         *)
(***************************************************************************)
HasTitle == "title" \in DOMAIN entries[1]

\* Braces balanced, counted independently of the code's stack: no prefix
\* closes more than it opens, and the whole text closes all it opens.
BraceDepth(s, n) ==
    Cardinality({i \in 1..n : s[i] = "{"}) - Cardinality({i \in 1..n : s[i] = "}"})

Balanced(s) ==
    /\ \A n \in 1..Len(s) : BraceDepth(s, n) >= 0
    /\ BraceDepth(s, Len(s)) = 0

\* C4 as stated: for every non-empty title, balanced or not, applying
\* _wrap_title to the result of _wrap_title yields the same title as
\* applying it once.
C4_WrapTitleIdempotent ==
    (pc = "twice" /\ HasTitle) => ret[2]["title"] = ret[1]["title"]

\* C4 as amended: for every non-empty title whose braces are balanced,
\* applying _wrap_title to the result of _wrap_title yields the same title
\* as applying it once.
C4_WrapTitleIdempotentWhenBalanced ==
    (pc = "twice" /\ HasTitle /\ Balanced(entries[1]["title"]))
        => ret[2]["title"] = ret[1]["title"]

\* a balanced title that the first application wrapped and the second kept
C4_Witness ==
    /\ pc = "twice"
    /\ HasTitle
    /\ Balanced(entries[1]["title"])
    /\ ret[1]["title"] = <<"{">> \o entries[1]["title"] \o <<"}">>
    /\ ret[2] = ret[1]

(***************************************************************************)
(* Claims about the script classifier and the author normalizer (under     *)
(* SpecAuthor).                                                            *)
(***************************************************************************)
FirstComma(name) == CHOOSE i \in 1..Len(name) :
    name[i] = "," /\ \A j \in 1..(i - 1) : name[j] # ","

\* the part before and the part after the first comma, trimmed
FamilyOf(name) == Strip(SubSeq(name, 1, FirstComma(name) - 1))

GivenOf(name) == Strip(SubSeq(name, FirstComma(name) + 1, Len(name)))

\* a name classified as CJK of the form 'family, given', both sides non-empty
CjkFamilyGiven(name) ==
    /\ is_japanese(name)
    /\ \E i \in 1..Len(name) : name[i] = ","
    /\ FamilyOf(name) # <<>>
    /\ GivenOf(name) # <<>>

AuthorIn == entries[1]["author"]

AuthorOut == ret[1]["author"]

\* C5 as stated: a CJK 'family, given' is emitted as 'given family' when
\* revjauthor is false and as 'family given' when it is true.
C5_GivenFamilyUnlessReversed ==
    pc = "treat" =>
        \A i \in 1..Len(AuthorIn) :
            CjkFamilyGiven(AuthorIn[i]) =>
                AuthorOut[i] = IF option["revjauthor"]
                               THEN FamilyOf(AuthorIn[i]) \o <<" ">> \o GivenOf(AuthorIn[i])
                               ELSE GivenOf(AuthorIn[i]) \o <<" ">> \o FamilyOf(AuthorIn[i])

\* C5 as amended: a CJK 'family, given' is emitted as 'family given' when
\* revjauthor is false and as 'given family' when it is true.
C5_FamilyGivenUnlessReversed ==
    pc = "treat" =>
        \A i \in 1..Len(AuthorIn) :
            CjkFamilyGiven(AuthorIn[i]) =>
                AuthorOut[i] = IF option["revjauthor"]
                               THEN GivenOf(AuthorIn[i]) \o <<" ">> \o FamilyOf(AuthorIn[i])
                               ELSE FamilyOf(AuthorIn[i]) \o <<" ">> \o GivenOf(AuthorIn[i])

\* 'family, given' with different sides, normalized without reversal
C5_Witness ==
    /\ pc = "treat"
    /\ ~option["revjauthor"]
    /\ \E i \in 1..Len(AuthorIn) :
           /\ CjkFamilyGiven(AuthorIn[i])
           /\ FamilyOf(AuthorIn[i]) # GivenOf(AuthorIn[i])
           /\ AuthorOut[i] # AuthorIn[i]

\* C9: _is_japanese(text) is true if and only if at least one character of
\* text is a CJK ideograph, hiragana or katakana character, a character
\* without a Unicode name counting as non-matching without stopping the scan.
C9_TrueIffSomeJapaneseChar ==
    pc = "is_japanese" =>
        LET text == AuthorIn[ret[1]]
        IN  ret[2] = (\E j \in 1..Len(text) : text[j] \in {"kanji", "hira", "kata"})

\* C10: a name that is not CJK, or has no comma, or is CJK with a comma but
\* with an empty side after trimming, is passed through unchanged; the
\* output list has the length and the order of the input list.
C10_PassThroughUnchanged ==
    pc = "treat" =>
        /\ Len(AuthorOut) = Len(AuthorIn)
        /\ \A i \in 1..Len(AuthorIn) :
               (\/ ~is_japanese(AuthorIn[i])
                \/ ~(\E j \in 1..Len(AuthorIn[i]) : AuthorIn[i][j] = ",")
                \/ FamilyOf(AuthorIn[i]) = <<>>
                \/ GivenOf(AuthorIn[i]) = <<>>)
               => AuthorOut[i] = AuthorIn[i]

(***************************************************************************)
(* Claims about clean_entry (under SpecEntry).                             *)
(***************************************************************************)
Source == entries[1]

Registered(entry) == entry["ENTRYTYPE"] \in DOMAIN required_fields

\* C6: for an entry of a registered type without an author field, or
\* without a year field, clean_entry raises no exception under any flags
\* and, when replaceid is set, the output keeps the input's ID.
C6_MissingAuthorOrYearTolerated ==
    (/\ pc = "called"
     /\ Registered(Source)
     /\ ("author" \notin DOMAIN Source \/ "year" \notin DOMAIN Source))
        => /\ ~Raised(ret[1])
           /\ option["replaceid"] => ret[1]["ID"] = Source["ID"]

\* C7: every entry clean_entry returns has, besides ID and ENTRYTYPE, only
\* fields of the registry's set for its entry type, under every combination
\* of flags.
C7_OnlyRequiredFields ==
    (pc = "called" /\ ~Raised(ret[1]))
        => DOMAIN ret[1] \subseteq
               {"ID", "ENTRYTYPE"} \cup required_fields[Source["ENTRYTYPE"]]

\* a returned entry whose source had fields outside the set of its type
C7_Witness ==
    /\ pc = "called"
    /\ ~Raised(ret[1])
    /\ {"abstract", "publisher"} \subseteq DOMAIN Source
    /\ Source["ENTRYTYPE"] = "article"
    /\ "abstract" \notin DOMAIN ret[1]
    /\ "publisher" \notin DOMAIN ret[1]
    /\ "journal" \in DOMAIN ret[1]

\* C8: with jauthor and replaceid set, for an entry with a year whose first
\* author is a CJK 'family, given', the regenerated ID is the family name
\* (spaces, periods and braces removed) followed by the year, for both
\* values of revjauthor.
C8_KeyFromFamilyName ==
    (/\ pc = "called"
     /\ option["jauthor"]
     /\ option["replaceid"]
     /\ ~Raised(ret[1])
     /\ "year" \in DOMAIN Source
     /\ "author" \in DOMAIN Source
     /\ Source["author"] # <<>>
     /\ CjkFamilyGiven(Source["author"][1]))
        => ret[1]["ID"] =
               RemoveChars(FamilyOf(Source["author"][1]), {" ", ".", "{", "}"})
                   \o Source["year"]

(***************************************************************************)
(* Claims about clean_entries (under Spec).                                *)
(***************************************************************************)
Returned == outcome["entries"]

\* the ID of entry i after its cleaning and before the deduplication
CleanedId(i) == clean_entry(entries[i], option)["ID"]

SameCleanedId(i) == {j \in 1..Len(entries) : CleanedId(j) = CleanedId(i)}

\* C1: no two entries of a returned batch have the same ID.
C1_ReturnedIdsUnique ==
    pc = "done" =>
        \A i, j \in 1..Len(Returned) :
            i # j => Returned[i]["ID"] # Returned[j]["ID"]

\* C2: for every ID that n >= 2 entries have after the cleaning, the k-th
\* of them in input order is returned with that ID followed by the k-th
\* lowercase letter, whatever other IDs the batch has.
C2_KthDuplicateGetsKthLetter ==
    pc = "done" =>
        \A i \in 1..Len(entries) :
            Cardinality(SameCleanedId(i)) >= 2 =>
                Returned[i]["ID"] =
                    CleanedId(i)
                        \o <<Letters[Cardinality({j \in SameCleanedId(i) : j <= i})]>>

\* C3: a batch with an entry of an unregistered type ends in the
\* CleanerException and returns no batch, wherever that entry is.
C3_UnknownTypeRaisesCleanerException ==
    (/\ pc \in {"done", "raised"}
     /\ \E i \in 1..Len(entries) : ~Registered(entries[i]))
        => outcome = Raise("CleanerException")

====
